---- MODULE Spec2Model ----
(***************************************************************************)
(* Move selection for the game of Isolation: the iterative-deepening       *)
(* driver CustomPlayer.get_move over the two search engines                *)
(* CustomPlayer.minimax and CustomPlayer.alphabeta                         *)
(* (src/isolation/game_agent.py).                                          *)
(*                                                                         *)
(* The engines are modelled one step at a time on an explicit call stack:  *)
(* one frame per active Python call, one action per statement group of the *)
(* frame on top.  The Board collaborator (isolation.Board) is not part of  *)
(* the sources; it is modelled from its interface: a grid, two players     *)
(* that move like chess knights onto blank cells, every visited cell       *)
(* blocked for good.  Both players are on the board in every state.  The   *)
(* boards are boards of the 4 x 4 grid with the players in opposite        *)
(* corners of it: the open boards, where every cell but the players' is    *)
(* blank, and the endgames with at most MaxBlanks blank cells, with either *)
(* enumeration order of the moves.                                         *)
(***************************************************************************)
EXTENDS Integers, Sequences, FiniteSets, TLC

\* ------------------------------------------------------------------ bounds
\* most blank cells of an endgame board handed to get_move
MaxBlanks == 2
\* deepest top-level search that may complete: the time-remaining accessor
\* reports a value below the threshold at the latest when iterative
\* deepening asks for depth MaxDepth + 1
MaxDepth == 4

\* ------------------------------------------------------- scores and moves
\* float("inf"); every finite score of the model is far below it
Inf == 1000000
\* the sentinel move (-1, -1)
NoMove == <<-1, -1>>
\* the factor k of custom_score
k == 5
\* default of the constructor's timeout parameter
TIMER_THRESHOLD == 10
\* default of the constructor's search_depth parameter
DefaultSearchDepth == 3

\* Python's tuple comparison on moves (row, column)
MoveLT(a, b) == a[1] < b[1] \/ (a[1] = b[1] /\ a[2] < b[2])
\* Python's tuple comparison on (score, move) pairs
PairLT(p, q) == p[1] < q[1] \/ (p[1] = q[1] /\ MoveLT(p[2], q[2]))

\* ------------------------------------------------------------- the board
Width == 4
Height == 4
Cells == (0 .. Height - 1) \X (0 .. Width - 1)
Me == "self"
Opp == "opp"
Players == {Me, Opp}

\* the order in which Board tries the eight knight jumps
Directions ==
  << <<-2, -1>>, <<-2, 1>>, <<-1, -2>>, <<-1, 2>>,
     <<1, -2>>, <<1, 2>>, <<2, -1>>, <<2, 1>> >>

Reverse(s) == [i \in 1 .. Len(s) |-> s[Len(s) + 1 - i]]

get_opponent(player) == IF player = Me THEN Opp ELSE Me

get_player_location(game, player) == game.loc[player]

get_blank_spaces(game) == game.blank

\* Board.get_legal_moves(player): the knight jumps from the player's cell
\* that land on a blank cell, in the board's enumeration order
LegalMovesOf(game, player) ==
  LET from == game.loc[player]
      dirs == IF game.rev THEN Reverse(Directions) ELSE Directions
      dest == [i \in 1 .. Len(dirs) |->
                 <<from[1] + dirs[i][1], from[2] + dirs[i][2]>>]
  IN  SelectSeq(dest, LAMBDA c : c \in game.blank)

\* Board.get_legal_moves(): the moves of the side to move
get_legal_moves(game) == LegalMovesOf(game, game.active)

\* Board.forecast_move(move): a new board on which the side to move has
\* moved and the other side is to move
forecast_move(game, move) ==
  [game EXCEPT !.blank = game.blank \ {move},
               !.loc = [game.loc EXCEPT ![game.active] = move],
               !.active = get_opponent(game.active)]

is_loser(game, player) ==
  player = game.active /\ get_legal_moves(game) = << >>

is_winner(game, player) ==
  player # game.active /\ get_legal_moves(game) = << >>

\* Board.utility(player): +inf for a win, -inf for a loss, 0 otherwise
utility(game, player) ==
  IF is_winner(game, player) THEN Inf
  ELSE IF is_loser(game, player) THEN -Inf
  ELSE 0

\* ------------------------------------------------------ the scoring function
Abs(x) == IF x < 0 THEN -x ELSE x

\* twice the distance abs(deltax) + abs(deltay) of custom_score, which
\* measures from (width / 2, height / 2)
Dist2(pos) == Abs(2 * pos[1] - Width) + Abs(2 * pos[2] - Height)

\* custom_score is k / distance + moves / k, a fraction; the model keeps it
\* exact by scaling every finite score by k * DistUnit, DistUnit the least
\* common multiple of the doubled distances of the board's cells
DistUnit ==
  LET ds == {Dist2(c) : c \in Cells} \ {0}
      common(n) == \A d \in ds : n % d = 0
  IN  CHOOSE n \in 1 .. 1000 : common(n) /\ \A m \in 1 .. n - 1 : ~common(m)

custom_score(game, player) ==
  IF is_loser(game, player) THEN -Inf
  ELSE IF is_winner(game, player) THEN Inf
  ELSE LET d2 == Dist2(get_player_location(game, player))
       IN  IF d2 = 0 THEN Inf
           ELSE (2 * k * k * DistUnit) \div d2
                  + DistUnit * Len(LegalMovesOf(game, player))

\* self.score(game, self)
score(game) == custom_score(game, Me)

\* ------------------------------------------------------------------ state
VARIABLES
  mode,          \* "get_move": one get_move call; "compare": the two engines
                 \* run one after the other on one board, no deadline
  method,        \* self.method
  iterative,     \* self.iterative
  search_depth,  \* self.search_depth
  root,          \* the board handed to get_move (parameter game)
  legal_moves,   \* the parameter legal_moves of get_move
  pc,            \* position of get_move (or of the comparison)
  depth,         \* the local depth of get_move's iterative loop
  best,          \* the locals (best_heuristic, best_move) of get_move
  result,        \* the value get_move returned, << >> before it returns
  stack,         \* the active engine frames, the running one last
  ret,           \* << >>, or the SearchResult a frame has just returned
  timeRead,      \* the last value read from self.time_left(), -1 before
  signal,        \* TRUE while a raised Timeout is looking for its handler
  topDepths,     \* history: the depths of the top-level engine calls made
  completed,     \* history: the results of the completed top-level calls
  stats,         \* history: counts of engine calls, deadline checks,
                 \* scoring calls, board queries, cutoffs, and alphabeta
                 \* frames that score directly at a depth above 1
  mmRes          \* compare: what the minimax call returned and its counts

vars ==
  << mode, method, iterative, search_depth, root, legal_moves, pc, depth,
     best, result, stack, ret, timeRead, signal, topDepths, completed, stats,
     mmRes >>

config == << mode, method, iterative, search_depth, root, legal_moves >>

\* the values the time-remaining accessor reports: one below the threshold,
\* one at it
TimeValues == {TIMER_THRESHOLD - 1, TIMER_THRESHOLD}

Top == stack[Len(stack)]
Pop == SubSeq(stack, 1, Len(stack) - 1)
SetTop(f) == [stack EXCEPT ![Len(stack)] = f]

\* a frame as it is called: Python has bound the parameters, nothing ran
NewFrame(fn, game, d, alpha, beta, maxp) ==
  [fn |-> fn, game |-> game, depth |-> d, alpha |-> alpha, beta |-> beta,
   maximizing_player |-> maxp, pc |-> "entry", moves |-> << >>, i |-> 1,
   best_score |-> 0, best_move |-> NoMove, acc |-> << >>, leaf |-> FALSE,
   scored |-> 0, called |-> 0]

\* the SearchResult a frame returns, with the frame it comes from
Result(f, s, m, kind) ==
  [score |-> s, move |-> m, fn |-> f.fn, game |-> f.game, depth |-> f.depth,
   maximizing_player |-> f.maximizing_player, kind |-> kind,
   alpha |-> f.alpha, beta |-> f.beta, scored |-> f.scored,
   called |-> f.called]

\* one step's additions to the counts
Count(calls, checks, scores, board) ==
  stats' = [stats EXCEPT !.calls = @ + calls, !.checks = @ + checks,
                         !.scores = @ + scores, !.board = @ + board]

\* return r: the frame on top is gone and its caller finds r
Return(r) == stack' = Pop /\ ret' = <<r>>

\* --------------------------------------------------------------- the boards
Board(me, opp, blank, rev) ==
  [blank |-> blank, loc |-> [p \in Players |-> IF p = Me THEN me ELSE opp],
   active |-> Me, rev |-> rev]

\* the cells the engine's player may stand on at the start: a corner, an
\* edge and an inner cell, every cell of the square board up to its
\* symmetries
MeStarts == { <<0, 0>>, <<0, 1>>, <<1, 1>> }

\* the cells the opponent may stand on at the start: the same three kinds
\* of cell, in the opposite corner of the board
OppStarts == { <<Height - 1 - c[1], Width - 1 - c[2]>> : c \in MeStarts }

\* the sets of at most n cells of S
RECURSIVE UpTo(_, _)
UpTo(S, n) ==
  IF n = 0 THEN { {} }
  ELSE UpTo(S, n - 1) \cup { T \cup {c} : T \in UpTo(S, n - 1), c \in S }

\* the blank cells of the boards with the players on me and opp: all the
\* other cells (an open board), or at most MaxBlanks of them (an endgame)
BlankSets(me, opp) ==
  LET free == Cells \ {me, opp} IN {free} \cup UpTo(free, MaxBlanks)

BoardsOf(me) ==
  UNION { { Board(me, opp, blank, rev) :
              blank \in BlankSets(me, opp), rev \in BOOLEAN } :
          opp \in OppStarts \ {me} }

StartBoards == UNION { BoardsOf(me) : me \in MeStarts }

\* ------------------------------------------------------------------- Init
Init ==
  /\ mode \in {"get_move", "compare"}
  /\ method \in IF mode = "get_move" THEN {"minimax", "alphabeta"}
                ELSE {"minimax"}
  /\ iterative \in IF mode = "get_move" THEN BOOLEAN ELSE {FALSE}
  /\ search_depth \in IF iterative THEN {DefaultSearchDepth}
                      ELSE 1 .. MaxDepth
  /\ root \in StartBoards
  /\ legal_moves = get_legal_moves(root)
  /\ pc = IF mode = "get_move" THEN "start" ELSE "cmp_start"
  /\ depth = 0
  /\ best = <<0, NoMove>>
  /\ result = << >>
  /\ stack = << >>
  /\ ret = << >>
  /\ timeRead = -1
  /\ signal = FALSE
  /\ topDepths = << >>
  /\ completed = << >>
  /\ stats = [calls |-> 0, checks |-> 0, scores |-> 0, board |-> 0,
               cuts |-> 0, shortcuts |-> 0]
  /\ mmRes = << >>

\* --------------------------------------------------------------- get_move
\* a fallback seeded with the sentinel instead of a legal move
SeedBestSentinel(lm) == <<-Inf, NoMove>>

\* line 271: the fallback (best_heuristic, best_move)
SeedBest(lm) == <<-Inf, lm[1]>>

\* an assignment that keeps the old result unless the new score is higher
TopAssignIfBetter(old, r) == IF r.score > old[1] THEN <<r.score, r.move>> ELSE old

\* lines 287 and 290: best_heuristic, best_move = search(...)
TopAssign(old, r) == <<r.score, r.move>>

\* lines 278-281: the engine that get_move calls
SearchMethod == IF method = "minimax" THEN "minimax" ELSE "alphabeta"

\* get_move without the test for an empty legal_moves
GetMoveStartNoForfeit ==
  /\ pc = "start"
  /\ best' = IF legal_moves = << >> THEN <<-Inf, NoMove>>
             ELSE <<-Inf, legal_moves[1]>>
  /\ depth' = IF iterative THEN 1 ELSE search_depth
  /\ pc' = "try"
  /\ UNCHANGED <<config, result, stack, ret, timeRead, signal, topDepths,
                 completed, stats, mmRes>>

\* lines 260-271: no legal move, forfeit; else seed the fallback
GetMoveStart ==
  /\ pc = "start"
  /\ IF legal_moves = << >>
     THEN /\ result' = <<NoMove>>
          /\ pc' = "done"
          /\ UNCHANGED <<best, depth>>
     ELSE /\ best' = SeedBest(legal_moves)
          /\ depth' = IF iterative THEN 1 ELSE search_depth
          /\ pc' = "try"
          /\ UNCHANGED result
  /\ UNCHANGED <<config, stack, ret, timeRead, signal, topDepths, completed, stats,
                 mmRes>>

\* lines 287 and 290: the call search(game, depth)
TopCall ==
  /\ pc = "try"
  /\ stack' = <<NewFrame(SearchMethod, root, depth, -Inf, Inf, TRUE)>>
  /\ topDepths' = Append(topDepths, depth)
  /\ Count(1, 0, 0, 0)
  /\ pc' = "searching"
  /\ UNCHANGED <<config, depth, best, result, ret, timeRead, signal, completed,
                 mmRes>>

\* a loop that ends once a search has returned a decided game
LoopUntilDecided(r) == r.score \notin {-Inf, Inf}

\* line 285: while True
LoopCondition(r) == TRUE

\* a loop that goes one level deeper in fixed-depth mode as well
TopReturnAlwaysLoop ==
  /\ pc = "searching" /\ stack = << >> /\ ret # << >>
  /\ best' = <<ret[1].score, ret[1].move>>
  /\ completed' = Append(completed, [res |-> ret[1], stats |-> stats])
  /\ ret' = << >>
  /\ depth' = depth + 1 /\ pc' = "try"
  /\ UNCHANGED <<config, result, stack, timeRead, signal, topDepths, stats,
                 mmRes>>

\* lines 287-290: the search returned; assign, and in the iterative loop
\* go one level deeper
TopReturn ==
  /\ pc = "searching" /\ stack = << >> /\ ret # << >>
  /\ best' = TopAssign(best, ret[1])
  /\ completed' = Append(completed, [res |-> ret[1], stats |-> stats])
  /\ ret' = << >>
  /\ IF iterative /\ LoopCondition(ret[1])
     THEN depth' = depth + 1 /\ pc' = "try"
     ELSE depth' = depth /\ pc' = "return"
  /\ UNCHANGED <<config, result, stack, timeRead, signal, topDepths, stats, mmRes>>

\* a try block around the fixed-depth call alone
InTryFixedOnly(p) == p \in {"try", "searching"} /\ ~iterative

\* lines 273-290: the positions of get_move inside its try block
InTry(p) == p \in {"try", "searching"}

\* lines 294-296: except Timeout: pass
CatchTimeout ==
  /\ signal /\ stack = << >> /\ InTry(pc)
  /\ signal' = FALSE
  /\ pc' = "return"
  /\ UNCHANGED <<config, depth, best, result, stack, ret, timeRead,
                 topDepths, completed, stats, mmRes>>

\* line 299: return best_move
GetMoveReturn ==
  /\ pc = "return"
  /\ result' = <<best[2]>>
  /\ pc' = "done"
  /\ UNCHANGED <<config, depth, best, stack, ret, timeRead, signal, topDepths,
                 completed, stats, mmRes>>

\* ------------------------------------------------- both engines: entry
\* a deadline test that also trips at the threshold itself
ExpiredAtThreshold(t) == t <= TIMER_THRESHOLD

\* lines 334 and 396: self.time_left() < self.TIMER_THRESHOLD
Expired(t) == t < TIMER_THRESHOLD

\* the values the accessor may report to the frame on top: never below the
\* threshold in a comparison run, and below it once iterative deepening
\* has passed MaxDepth
Readable ==
  { t \in TimeValues :
      /\ mode = "compare" => t >= TIMER_THRESHOLD
      /\ stack[1].depth > MaxDepth => t < TIMER_THRESHOLD }

\* lines 334-335 and 396-397: the deadline check; raise Timeout leaves the
\* frame that raises it
CheckTime ==
  /\ stack # << >> /\ Top.pc = "entry"
  /\ \E t \in Readable :
       /\ timeRead' = t
       /\ IF Expired(t)
          THEN stack' = Pop /\ signal' = TRUE
          ELSE stack' = SetTop([Top EXCEPT !.pc = "body"]) /\ signal' = signal
  /\ Count(0, 1, 0, 0)
  /\ UNCHANGED <<config, pc, depth, best, result, ret, topDepths, completed,
                 mmRes>>

\* an engine frame with a handler: it takes the Timeout that its recursive
\* call raised and returns the result it has so far
UnwindHandled ==
  /\ signal /\ stack # << >>
  /\ signal' = FALSE
  /\ Return(Result(Top, Top.best_score, Top.best_move, "exhausted"))
  /\ UNCHANGED <<config, pc, depth, best, result, timeRead, topDepths,
                 completed, stats, mmRes>>

\* lines 350-352, 446 and 461: the Timeout that a recursive call raised
\* passes through the calling frame, which has no handler and is left too
Unwind ==
  /\ signal /\ stack # << >>
  /\ stack' = Pop
  /\ UNCHANGED <<config, pc, depth, best, result, ret, timeRead, signal,
                 topDepths, completed, stats, mmRes>>

\* a terminal test on the side to move instead of the engine's player
IsTerminalSideToMove(game) == get_legal_moves(game) = << >>

\* lines 338 and 403: not game.get_legal_moves(self)
IsTerminal(game) == LegalMovesOf(game, Me) = << >>

\* lines 339 and 404: game.utility(self), game.get_player_location(self)
TerminalResult(game) == <<utility(game, Me), get_player_location(game, Me)>>

\* ----------------------------------------------------------------- minimax
\* Python's max over a list of (score, move) pairs: the first greatest
RECURSIVE MaxFrom(_, _, _)
MaxFrom(s, i, m) ==
  IF i > Len(s) THEN m
  ELSE MaxFrom(s, i + 1, IF PairLT(m, s[i]) THEN s[i] ELSE m)

ListMax(s) == MaxFrom(s, 2, s[1])

\* Python's min over a list of (score, move) pairs: the first least
RECURSIVE MinFrom(_, _, _)
MinFrom(s, i, m) ==
  IF i > Len(s) THEN m
  ELSE MinFrom(s, i + 1, IF PairLT(s[i], m) THEN s[i] ELSE m)

ListMin(s) == MinFrom(s, 2, s[1])

\* the first pair with the best score: ties are left to the scan order
RECURSIVE FirstBest(_, _, _, _)
FirstBest(s, i, m, maxp) ==
  IF i > Len(s) THEN m
  ELSE FirstBest(s, i + 1,
                 IF (maxp /\ s[i][1] > m[1]) \/ (~maxp /\ s[i][1] < m[1])
                 THEN s[i] ELSE m,
                 maxp)

MinimaxSelectByScore(acc, maxp) ==
  IF maxp THEN FirstBest(acc, 2, acc[1], TRUE)
  ELSE FirstBest(Append(acc, <<Inf, NoMove>>), 2,
                 Append(acc, <<Inf, NoMove>>)[1], FALSE)

\* lines 345-352: max(pairs) on a maximizing layer,
\* min(pairs + [(inf, (-1, -1))]) on a minimizing one
MinimaxSelect(acc, maxp) ==
  IF maxp THEN ListMax(acc) ELSE ListMin(Append(acc, <<Inf, NoMove>>))

\* lines 338-352: the terminal test, else the list comprehension starts
\* with game.get_legal_moves()
MinimaxBody ==
  /\ stack # << >> /\ Top.fn = "minimax" /\ Top.pc = "body"
  /\ IF IsTerminal(Top.game)
     THEN /\ Return(Result(Top, TerminalResult(Top.game)[1],
                           TerminalResult(Top.game)[2], "terminal"))
          /\ Count(0, 0, 0, 3)
     ELSE /\ stack' = SetTop([Top EXCEPT !.pc = "loop",
                                         !.moves = get_legal_moves(Top.game)])
          /\ Count(0, 0, 0, 2)
          /\ UNCHANGED ret
  /\ UNCHANGED <<config, pc, depth, best, result, timeRead, signal, topDepths,
                 completed, mmRes>>

\* lines 345 and 347: one element (self.score(game.forecast_move(move),
\* self), move) of the list at depth 1
MinimaxScore ==
  /\ stack # << >> /\ Top.fn = "minimax" /\ Top.pc = "loop"
  /\ Top.depth = 1 /\ Top.i <= Len(Top.moves)
  /\ LET move == Top.moves[Top.i]
     IN  stack' = SetTop([Top EXCEPT
           !.acc = Append(@, <<score(forecast_move(Top.game, move)), move>>),
           !.i = @ + 1, !.scored = @ + 1])
  /\ Count(0, 0, 1, 1)
  /\ UNCHANGED <<config, pc, depth, best, result, ret, timeRead, signal, topDepths,
                 completed, mmRes>>

\* lines 350 and 352: the recursive call for one move of the list
MinimaxCall ==
  /\ stack # << >> /\ Top.fn = "minimax" /\ Top.pc = "loop"
  /\ Top.depth # 1 /\ Top.i <= Len(Top.moves)
  /\ stack' = Append(SetTop([Top EXCEPT !.pc = "wait", !.called = @ + 1]),
                     NewFrame("minimax",
                              forecast_move(Top.game, Top.moves[Top.i]),
                              Top.depth - 1, -Inf, Inf,
                              ~Top.maximizing_player))
  /\ Count(1, 0, 0, 1)
  /\ UNCHANGED <<config, pc, depth, best, result, ret, timeRead, signal, topDepths,
                 completed, mmRes>>

\* lines 350 and 352: the call returned; its score is paired with the move
MinimaxResume ==
  /\ stack # << >> /\ Top.fn = "minimax" /\ Top.pc = "wait" /\ ret # << >>
  /\ stack' = SetTop([Top EXCEPT
       !.acc = Append(@, <<ret[1].score, Top.moves[Top.i]>>),
       !.i = @ + 1, !.pc = "loop"])
  /\ ret' = << >>
  /\ UNCHANGED <<config, pc, depth, best, result, timeRead, signal, topDepths,
                 completed, stats, mmRes>>

\* lines 345-352: the list is complete; return its max or min
MinimaxFinish ==
  /\ stack # << >> /\ Top.fn = "minimax" /\ Top.pc = "loop"
  /\ Top.i > Len(Top.moves)
  /\ LET r == MinimaxSelect(Top.acc, Top.maximizing_player)
     IN  Return(Result(Top, r[1], r[2], "exhausted"))
  /\ UNCHANGED <<config, pc, depth, best, result, timeRead, signal, topDepths,
                 completed, stats, mmRes>>

\* --------------------------------------------------------------- alphabeta
\* a leaf test that takes any board with blank cells left for the endgame
IsLeafAnyBlank(game, d) == d = 1 \/ Cardinality(get_blank_spaces(game)) >= 1

\* line 408: depth == 1 or len(game.get_blank_spaces()) == 1
IsLeaf(game, d) == d = 1 \/ Cardinality(get_blank_spaces(game)) = 1

\* a fail-high test against the wrong bound
FailHighOnAlpha(s, f) == s >= f.alpha

\* lines 416 and 447: score >= beta, in frame f
FailHigh(s, f) == s >= f.beta

\* a fail-low test that lets a score equal to alpha pass
FailLowStrict(s, f) == s < f.alpha

\* lines 432 and 462: score <= alpha, in frame f
FailLow(s, f) == s <= f.alpha

\* lines 411, 427, 443, 458: the initial running result
InitialBest(maxp, moves) ==
  IF maxp THEN <<-Inf, moves[1]>> ELSE <<Inf, NoMove>>

\* lines 400-408, 411, 427, 443, 458: the moves of the side to move, the
\* terminal test, the choice of branch and the initial running result
AlphabetaBody ==
  /\ stack # << >> /\ Top.fn = "alphabeta" /\ Top.pc = "body"
  /\ LET moves == get_legal_moves(Top.game)
     IN  IF IsTerminal(Top.game)
         THEN /\ Return(Result(Top, TerminalResult(Top.game)[1],
                               TerminalResult(Top.game)[2], "terminal"))
              /\ Count(0, 0, 0, 4)
         ELSE /\ stack' = SetTop([Top EXCEPT
                   !.pc = "loop", !.moves = moves,
                   !.leaf = IsLeaf(Top.game, Top.depth),
                   !.best_score = InitialBest(Top.maximizing_player, moves)[1],
                   !.best_move = InitialBest(Top.maximizing_player, moves)[2]])
              /\ stats' = [stats EXCEPT
                   !.board = @ + (IF Top.depth = 1 THEN 2 ELSE 3),
                   !.shortcuts = @ + (IF Top.depth # 1
                                         /\ Cardinality(Top.game.blank) = 1
                                      THEN 1 ELSE 0)]
              /\ UNCHANGED ret
  /\ UNCHANGED <<config, pc, depth, best, result, timeRead, signal, topDepths,
                 completed, mmRes>>

\* a replacement test that also lets an equal score replace the result
BetterOrEqual(s, f) ==
  IF f.maximizing_player THEN s >= f.best_score ELSE s <= f.best_score

\* lines 420, 436, 450 and 465: score > best_score, score < worst_score
Better(s, f) ==
  IF f.maximizing_player THEN s > f.best_score ELSE s < f.best_score

\* lines 416-421, 432-437, 447-453, 462-468: one move's score s is in:
\* cut off, or keep the better result; a non-leaf frame also moves its bound
AlphabetaTake(s, scoredNow) ==
  LET f == [Top EXCEPT !.scored = @ + scoredNow]
      move == f.moves[f.i]
      cut == IF f.maximizing_player THEN FailHigh(s, f) ELSE FailLow(s, f)
      better == Better(s, f)
  IN  IF cut
      THEN /\ Return(Result(f, s, move, "cutoff"))
           /\ stats' = [stats EXCEPT !.cuts = @ + 1,
                                     !.scores = @ + scoredNow,
                                     !.board = @ + scoredNow]
      ELSE /\ Count(0, 0, scoredNow, scoredNow)
           /\ stack' = SetTop([f EXCEPT
                !.i = @ + 1, !.pc = "loop",
                !.best_score = IF better THEN s ELSE @,
                !.best_move = IF better THEN move ELSE @,
                !.alpha = IF better /\ ~f.leaf /\ f.maximizing_player
                          THEN s ELSE @,
                !.beta = IF better /\ ~f.leaf /\ ~f.maximizing_player
                         THEN s ELSE @])
           /\ ret' = << >>

\* lines 412-421 and 428-437: one turn of the loop of a leaf frame
AlphabetaScore ==
  /\ stack # << >> /\ Top.fn = "alphabeta" /\ Top.pc = "loop"
  /\ Top.leaf /\ Top.i <= Len(Top.moves)
  /\ AlphabetaTake(score(forecast_move(Top.game, Top.moves[Top.i])), 1)
  /\ UNCHANGED <<config, pc, depth, best, result, timeRead, signal, topDepths,
                 completed, mmRes>>

\* lines 446 and 461: the recursive call for one move
AlphabetaCall ==
  /\ stack # << >> /\ Top.fn = "alphabeta" /\ Top.pc = "loop"
  /\ ~Top.leaf /\ Top.i <= Len(Top.moves)
  /\ stack' = Append(SetTop([Top EXCEPT !.pc = "wait", !.called = @ + 1]),
                     NewFrame("alphabeta",
                              forecast_move(Top.game, Top.moves[Top.i]),
                              Top.depth - 1, Top.alpha, Top.beta,
                              ~Top.maximizing_player))
  /\ Count(1, 0, 0, 1)
  /\ UNCHANGED <<config, pc, depth, best, result, ret, timeRead, signal, topDepths,
                 completed, mmRes>>

\* lines 446-453 and 461-468: the call returned; its score is taken
AlphabetaResume ==
  /\ stack # << >> /\ Top.fn = "alphabeta" /\ Top.pc = "wait" /\ ret # << >>
  /\ AlphabetaTake(ret[1].score, 0)
  /\ UNCHANGED <<config, pc, depth, best, result, timeRead, signal, topDepths,
                 completed, mmRes>>

\* lines 423, 439, 455, 470: the loop is over; return the running result
AlphabetaFinish ==
  /\ stack # << >> /\ Top.fn = "alphabeta" /\ Top.pc = "loop"
  /\ Top.i > Len(Top.moves)
  /\ Return(Result(Top, Top.best_score, Top.best_move, "exhausted"))
  /\ UNCHANGED <<config, pc, depth, best, result, timeRead, signal, topDepths,
                 completed, stats, mmRes>>

\* ---------------------------------------------- the comparison of engines
\* minimax(game, depth) on the board, no deadline
CompareMinimax ==
  /\ pc = "cmp_start"
  /\ stack' = <<NewFrame("minimax", root, search_depth, -Inf, Inf, TRUE)>>
  /\ Count(1, 0, 0, 0)
  /\ pc' = "cmp_minimax"
  /\ UNCHANGED <<config, depth, best, result, ret, timeRead, signal, topDepths,
                 completed, mmRes>>

\* minimax returned: note its result and counts, then
\* alphabeta(game, depth) on the same board
CompareAlphabeta ==
  /\ pc = "cmp_minimax" /\ stack = << >> /\ ret # << >>
  /\ mmRes' = <<[res |-> ret[1], stats |-> stats]>>
  /\ ret' = << >>
  /\ stack' = <<NewFrame("alphabeta", root, search_depth, -Inf, Inf, TRUE)>>
  /\ Count(1, 0, 0, 0)
  /\ pc' = "cmp_alphabeta"
  /\ UNCHANGED <<config, depth, best, result, timeRead, signal, topDepths,
                 completed>>

\* alphabeta returned
CompareDone ==
  /\ pc = "cmp_alphabeta" /\ stack = << >> /\ ret # << >>
  /\ pc' = "cmp_done"
  /\ UNCHANGED <<config, depth, best, result, stack, ret, timeRead, signal,
                 topDepths, completed, stats, mmRes>>

\* ------------------------------------------------------------------- Next
Next ==
  \/ GetMoveStart
  \/ TopCall
  \/ TopReturn
  \/ CatchTimeout
  \/ GetMoveReturn
  \/ CheckTime
  \/ Unwind
  \/ MinimaxBody
  \/ MinimaxScore
  \/ MinimaxCall
  \/ MinimaxResume
  \/ MinimaxFinish
  \/ AlphabetaBody
  \/ AlphabetaScore
  \/ AlphabetaCall
  \/ AlphabetaResume
  \/ AlphabetaFinish
  \/ CompareMinimax
  \/ CompareAlphabeta
  \/ CompareDone

Spec == Init /\ [][Next]_vars

\* the interpreter runs the one thread of the program on: a step that can
\* be taken is taken
LiveSpec == Init /\ [][Next]_vars /\ WF_vars(Next)

\* =================================================================== claims
Range(s) == {s[i] : i \in 1 .. Len(s)}

Returned == mode = "get_move" /\ pc = "done"

\* C1: whichever engine and mode is configured and whenever the deadline
\* trips, the move get_move returns for a nonempty legal_moves is one of
\* legal_moves.
C1_ReturnedMoveIsLegal ==
  (Returned /\ legal_moves # << >>) => result[1] \in Range(legal_moves)

\* a call that was cancelled inside its third search, with alphabeta
C1_Witness ==
  /\ Returned /\ legal_moves # << >> /\ method = "alphabeta" /\ iterative
  /\ Len(completed) = 2 /\ Len(topDepths) = 3
  /\ stats.scores > completed[2].stats.scores
  /\ result[1] \in Range(legal_moves)

\* C2: with an empty legal_moves get_move returns (-1, -1) and calls no
\* engine: no deadline check, no board query, no scoring call.
C2_EmptyForfeits ==
  (mode = "get_move" /\ legal_moves = << >>) =>
     /\ pc \in {"start", "done"}
     /\ pc = "done" => result = <<NoMove>>
     /\ stack = << >> /\ topDepths = << >>
     /\ stats.calls = 0 /\ stats.checks = 0 /\ stats.scores = 0
     /\ stats.board = 0 /\ timeRead = -1

C2_Witness == Returned /\ legal_moves = << >> /\ result = <<NoMove>>

\* C3: a Timeout raised in any engine frame never leaves get_move: once it
\* has left the engine frames get_move is inside its try block, whose
\* handler takes it, and get_move ends by returning a legal move or the
\* sentinel.
C3_TimeoutNeverEscapes ==
  /\ signal => (mode = "get_move" /\ (stack # << >> \/ ENABLED CatchTimeout))
  /\ Returned =>
       /\ ~signal
       /\ Len(result) = 1
       /\ result[1] = NoMove \/ result[1] \in Range(legal_moves)
  /\ (mode = "get_move" /\ pc # "done") => ENABLED Next

\* a Timeout raised three frames deep, in the second round of iterative
\* deepening, and handled: get_move returned
C3_Witness ==
  /\ Returned /\ iterative /\ timeRead < TIMER_THRESHOLD
  /\ Len(topDepths) = 2 /\ stats.calls > completed[1].stats.calls + 1
  /\ result[1] \in Range(legal_moves)

\* C4: in iterative mode, when the deadline trips in the top-level search
\* at depth d, get_move returns the move of the completed search at depth
\* d - 1, and the first of legal_moves when d = 1.
C4_LastCompletedDepth ==
  (Returned /\ iterative /\ legal_moves # << >>) =>
     LET d == Len(topDepths)
     IN  /\ topDepths = [j \in 1 .. d |-> j]
         /\ Len(completed) = d - 1
         /\ \A j \in 1 .. d - 1 : completed[j].res.depth = j
         /\ result[1] = IF d = 1 THEN legal_moves[1]
                        ELSE completed[d - 1].res.move

\* cancelled in the depth-4 search after it had scored positions; the
\* depth-3 move is returned, with a lower score than the depth-2 move and
\* different from it and from the fallback
C4_Witness ==
  /\ Returned /\ iterative /\ Len(topDepths) = 4 /\ Len(completed) = 3
  /\ stats.scores > completed[3].stats.scores
  /\ result[1] = completed[3].res.move
  /\ completed[3].res.move # completed[2].res.move
  /\ completed[3].res.move # legal_moves[1]
  /\ completed[3].res.score < completed[2].res.score

\* what the comparison run saw: the scoring calls of each engine
Compared == mode = "compare" /\ pc = "cmp_done"
MinimaxScores == mmRes[1].stats.scores
AlphabetaScores == stats.scores - mmRes[1].stats.scores

\* C5: on every board and for every depth 1 .. MaxDepth, with no deadline
\* trip, the top-level alphabeta call returns the score that the top-level
\* minimax call returns.
C5_SameScore == Compared => ret[1].score = mmRes[1].res.score

\* a depth-4 comparison in which alphabeta cut off, scored fewer positions
\* than minimax and returned the same finite score
C5_Witness ==
  /\ Compared /\ search_depth = 4 /\ stats.cuts > 0
  /\ AlphabetaScores < MinimaxScores
  /\ ret[1].score = mmRes[1].res.score
  /\ ret[1].score \notin {-Inf, 0, Inf}

\* C6 as stated: alphabeta never makes more scoring calls than minimax on
\* the same board and depth.
C6_Original == Compared => AlphabetaScores <= MinimaxScores

\* C6, amended: alphabeta makes no more scoring calls than minimax on the
\* same board and depth, provided no alphabeta frame at a depth above 1
\* scores its moves directly because exactly one blank cell is left.
C6_FewerScoresWithoutEndgame ==
  (Compared /\ stats.shortcuts = 0) => AlphabetaScores <= MinimaxScores

\* a depth-3 comparison without the endgame branch in which alphabeta
\* scored positions, but fewer than minimax
C6_Witness ==
  /\ Compared /\ stats.shortcuts = 0 /\ search_depth >= 3
  /\ AlphabetaScores > 0 /\ AlphabetaScores < MinimaxScores

\* the greatest and the least pair of a set in the order of (score, move)
LexGreatest(S) == CHOOSE p \in S : \A q \in S : ~PairLT(p, q)
LexLeast(S) == CHOOSE p \in S : \A q \in S : ~PairLT(q, p)

\* what C7 says a minimax call returns: on a board where the engine's
\* player cannot move the terminal pair, else the extremum over the pairs
\* (value of the child, move)
RECURSIVE MinimaxValue(_, _, _)
MinimaxValue(game, d, maxp) ==
  IF LegalMovesOf(game, Me) = << >>
  THEN <<utility(game, Me), get_player_location(game, Me)>>
  ELSE LET value(child) ==
             IF d = 1 THEN custom_score(child, Me)
             ELSE MinimaxValue(child, d - 1, ~maxp)[1]
           pairs == { <<value(forecast_move(game, m)), m>> :
                        m \in Range(get_legal_moves(game)) }
       IN  IF maxp THEN LexGreatest(pairs)
           ELSE LexLeast(pairs \cup {<<Inf, NoMove>>})

\* C7: a minimax call on a board where the engine's player can move returns
\* the lexicographic maximum (maximizing layer) or, together with
\* (inf, (-1, -1)), minimum (minimizing layer) of the pairs (value, move)
\* over the legal moves of the side to move, value being the child's score
\* at depth 1 and the child's returned score above.
C7_MinimaxLexExtremum ==
  (ret # << >> /\ ret[1].fn = "minimax"
     /\ LegalMovesOf(ret[1].game, Me) # << >>) =>
     <<ret[1].score, ret[1].move>> =
        MinimaxValue(ret[1].game, ret[1].depth, ret[1].maximizing_player)

\* a maximizing minimax frame above depth 1 with two moves of equal value:
\* it returns the greater move, which the board enumerates second
C7_Witness ==
  /\ ret # << >> /\ ret[1].fn = "minimax" /\ ret[1].maximizing_player
  /\ ret[1].depth > 1 /\ ret[1].called = 2
  /\ LET moves == get_legal_moves(ret[1].game)
     IN  /\ Len(moves) = 2 /\ ret[1].move = moves[2]
         /\ MoveLT(moves[1], moves[2])
         /\ MinimaxValue(forecast_move(ret[1].game, moves[1]),
                         ret[1].depth - 1, FALSE)[1] = ret[1].score
         /\ ret[1].score \notin {-Inf, Inf}

\* the result of a frame that returned at once, without a call or a score
ReturnedTerminal(r) ==
  /\ r.score = utility(r.game, Me)
  /\ r.move = get_player_location(r.game, Me)
  /\ r.scored = 0 /\ r.called = 0

\* C8 as stated: a minimax or alphabeta call on a board where the side to
\* move has no legal move returns (utility, location of the engine's
\* player) without a recursive or a scoring call.
C8_Original ==
  (ret # << >> /\ get_legal_moves(ret[1].game) = << >>) =>
     ReturnedTerminal(ret[1])

\* C8, amended: a minimax or alphabeta call on a board where the engine's
\* player has no legal move, on either layer and at any depth, returns
\* (utility, location of the engine's player) without a recursive or a
\* scoring call.
C8_TerminalForEnginePlayer ==
  (ret # << >> /\ LegalMovesOf(ret[1].game, Me) = << >>) =>
     ReturnedTerminal(ret[1])

\* an alphabeta frame on a minimizing layer, above depth 1, where the
\* engine's player cannot move and the side to move can
C8_Witness ==
  /\ ret # << >> /\ ret[1].fn = "alphabeta" /\ ~ret[1].maximizing_player
  /\ ret[1].depth > 1
  /\ LegalMovesOf(ret[1].game, Me) = << >>
  /\ get_legal_moves(ret[1].game) # << >>
  /\ ReturnedTerminal(ret[1])

\* C9: every SearchResult a minimax or alphabeta frame returns carries the
\* sentinel or a legal move of the side to move on the frame's board.
C9_MoveIsSentinelOrLegal ==
  ret # << >> =>
     \/ ret[1].move = NoMove
     \/ ret[1].move \in Range(get_legal_moves(ret[1].game))

\* C10: in fixed-depth mode with a nonempty legal_moves, get_move makes one
\* top-level engine call, at depth search_depth, and returns that call's
\* move if it completes and the first of legal_moves if it is cancelled.
C10_FixedDepthOneCall ==
  (mode = "get_move" /\ ~iterative /\ legal_moves # << >>) =>
     /\ topDepths \in {<< >>, <<search_depth>>}
     /\ pc \in {"searching", "return", "done"} => topDepths = <<search_depth>>
     /\ Len(completed) <= 1
     /\ pc = "done" =>
          result[1] = IF completed # << >> THEN completed[1].res.move
                      ELSE legal_moves[1]

\* a fixed-depth call at depth 3 that completed and returned a move that
\* is not the fallback
C10_Witness ==
  /\ Returned /\ ~iterative /\ search_depth = 3
  /\ topDepths = <<3>> /\ Len(completed) = 1
  /\ completed[1].res.depth = 3
  /\ result[1] = completed[1].res.move
  /\ result[1] # legal_moves[1]

\* the frame on top has just been called: nothing of its body has run
AtEntry == stack # << >> /\ Top.pc = "entry"

\* every engine call but one that has just been made has queried the
\* accessor once, and a frame that has not queried it has asked the board
\* nothing, scored nothing and called nothing
C11_OncePerCall ==
  /\ \A i \in 1 .. Len(stack) - 1 : stack[i].pc # "entry"
  /\ stats.checks = stats.calls - (IF AtEntry THEN 1 ELSE 0)
  /\ AtEntry => /\ Top.moves = << >> /\ Top.acc = << >>
                /\ Top.scored = 0 /\ Top.called = 0
  /\ AtEntry => ~signal

\* the first step of a call is the query alone, it raises exactly for a
\* value below the threshold, and no other step queries the accessor
C11_QueryStep ==
  IF AtEntry
  THEN /\ stats'.checks = stats.checks + 1
       /\ stats'.calls = stats.calls /\ stats'.scores = stats.scores
       /\ stats'.board = stats.board
       /\ signal' = (timeRead' < TIMER_THRESHOLD)
       /\ IF signal' THEN stack' = Pop /\ ret' = << >>
          ELSE stack' = SetTop([Top EXCEPT !.pc = "body"])
  ELSE stats'.checks = stats.checks /\ timeRead' = timeRead

\* C11: every minimax and alphabeta call, top-level or recursive, queries
\* the time-remaining accessor exactly once, as its first step and before
\* any board or scoring query; it raises Timeout if and only if the value
\* read is strictly below the threshold; no other step of a search queries
\* the accessor.
C11_DeadlineCheckedOnceFirst == []C11_OncePerCall /\ [][C11_QueryStep]_vars

\* a recursive call read a value below the threshold and raised, after
\* earlier calls of the same search had read the threshold itself, gone on
\* and scored positions
C11_Witness ==
  /\ mode = "get_move" /\ signal /\ timeRead < TIMER_THRESHOLD
  /\ stats.checks = stats.calls /\ stats.calls > Len(topDepths) + 1
  /\ stats.scores > 0

\* a Timeout has been raised in this get_move call: the accessor is not
\* queried again after a value below the threshold
Raised == mode = "get_move" /\ timeRead # -1 /\ timeRead < TIMER_THRESHOLD

\* after the raise no frame has returned a result, the frames still active
\* are callers waiting for a call, and get_move is past its try block as
\* soon as the signal is gone
C12_NoResultAfterSignal ==
  Raised =>
     /\ ret = << >>
     /\ \A i \in 1 .. Len(stack) : stack[i].pc = "wait"
     /\ signal \/ (stack = << >> /\ pc \in {"return", "done"})

\* after the raise a step only leaves a frame, handles the signal in
\* get_move or returns from get_move
C12_StepAfterSignal ==
  /\ Raised =>
       /\ stats' = stats /\ topDepths' = topDepths /\ completed' = completed
       /\ best' = best /\ depth' = depth /\ ret' = << >>
       /\ stack' = stack \/ (stack # << >> /\ stack' = Pop)
  /\ (signal /\ ~signal') =>
       (stack = << >> /\ InTry(pc) /\ pc' = "return")

\* C12: once Timeout is raised in an engine frame, no frame active at that
\* moment returns a SearchResult, and no scoring call, move enumeration,
\* recursive call or new round of iterative deepening happens before
\* get_move returns; the signal is handled in get_move alone.
C12_CancellationIsFinal ==
  []C12_NoResultAfterSignal /\ [][C12_StepAfterSignal]_vars

\* the signal is passing through two alphabeta frames of the third round,
\* the inner of which had taken the score of a move and was inside the
\* call for its next move
C12_Witness ==
  /\ Raised /\ signal /\ method = "alphabeta" /\ Len(topDepths) = 3
  /\ Len(stack) = 2 /\ Top.i > 1 /\ Top.best_move = Top.moves[1]

\* the bounds that the frame at position i of the stack received: those of
\* the top-level call, or those its caller holds while it waits
Received(i) ==
  IF i = 1 THEN [alpha |-> -Inf, beta |-> Inf]
  ELSE [alpha |-> stack[i - 1].alpha, beta |-> stack[i - 1].beta]

\* the bounds a non-leaf alphabeta frame has handed to the child it waits
\* for are no looser than the bounds it received
C13_NoLooserThanReceived ==
  \A i \in 1 .. Len(stack) :
     (stack[i].fn = "alphabeta" /\ stack[i].pc = "wait") =>
        IF stack[i].maximizing_player
        THEN stack[i].alpha >= Received(i).alpha
               /\ stack[i].beta = Received(i).beta
        ELSE stack[i].beta <= Received(i).beta
               /\ stack[i].alpha = Received(i).alpha

\* a step of a non-leaf alphabeta frame moves its own bound one way only
C13_BoundMovesOneWay ==
  (stack # << >> /\ Len(stack') = Len(stack) /\ Top.fn = "alphabeta") =>
     LET f == Top
         g == stack'[Len(stack)]
     IN  IF f.maximizing_player
         THEN g.alpha >= f.alpha /\ g.beta = f.beta
         ELSE g.beta <= f.beta /\ g.alpha = f.alpha

\* C13: within one non-leaf alphabeta frame the bounds handed to successive
\* children only tighten: on a maximizing layer each child's alpha is at
\* least the alpha the frame received and the alpha of every earlier
\* child, beta unchanged; on a minimizing layer each child's beta is at
\* most the beta the frame received and the beta of every earlier child,
\* alpha unchanged.
C13_BoundsOnlyTighten ==
  []C13_NoLooserThanReceived /\ [][C13_BoundMovesOneWay]_vars

\* the test that C14 names: the score against the frame's current bound
C14_Cuts(s, maxp, alpha, beta) == IF maxp THEN s >= beta ELSE s <= alpha

\* an alphabeta frame takes its moves one by one in enumeration order: a
\* leaf frame has scored, and a non-leaf frame has recursed into, the
\* moves before the current one and none after it
C14_InOrder ==
  \A j \in 1 .. Len(stack) :
     LET f == stack[j]
     IN  (f.fn = "alphabeta" /\ f.pc \in {"loop", "wait"}) =>
            /\ f.moves = get_legal_moves(f.game)
            /\ f.scored + f.called = IF f.pc = "wait" THEN f.i ELSE f.i - 1
            /\ IF f.leaf THEN f.called = 0 ELSE f.scored = 0

\* what a leaf frame returned, against the scores of its moves: a cutoff
\* is at the first move whose score meets the bound, and a frame that
\* scanned every move found no such score
C14_LeafResult ==
  (ret # << >> /\ ret[1].fn = "alphabeta" /\ ret[1].kind # "terminal"
     /\ IsLeaf(ret[1].game, ret[1].depth)) =>
     LET r == ret[1]
         moves == get_legal_moves(r.game)
         cuts(j) == C14_Cuts(score(forecast_move(r.game, moves[j])),
                             r.maximizing_player, r.alpha, r.beta)
     IN  /\ r.called = 0 /\ r.scored \in 0 .. Len(moves)
         /\ \A j \in 1 .. r.scored - 1 : ~cuts(j)
         /\ IF r.kind = "cutoff"
            THEN /\ r.scored >= 1 /\ cuts(r.scored)
                 /\ r.move = moves[r.scored]
                 /\ r.score = score(forecast_move(r.game, r.move))
            ELSE r.scored = Len(moves) /\ \A j \in 1 .. Len(moves) : ~cuts(j)

\* the step that takes a move's score, computed in a leaf frame and
\* returned by the child in a non-leaf frame: if the score meets the bound
\* the frame returns it with the move, else the frame goes on to its next
\* move
C14_TakeStep ==
  LET f == Top
      scoring == f.pc = "loop" /\ f.leaf /\ f.i <= Len(f.moves)
      s == IF scoring THEN score(forecast_move(f.game, f.moves[f.i]))
           ELSE ret[1].score
  IN  (stack # << >> /\ f.fn = "alphabeta"
         /\ (scoring \/ (f.pc = "wait" /\ ret # << >>))) =>
         IF C14_Cuts(s, f.maximizing_player, f.alpha, f.beta)
         THEN /\ stack' = Pop /\ ret' # << >>
              /\ ret'[1].score = s /\ ret'[1].move = f.moves[f.i]
              /\ ret'[1].game = f.game /\ ret'[1].depth = f.depth
              /\ ret'[1].scored + ret'[1].called = f.i
         ELSE /\ Len(stack') = Len(stack) /\ ret' = << >>
              /\ stack'[Len(stack)].i = f.i + 1

\* C14: an alphabeta frame, leaf or not, scans its legal moves in
\* enumeration order; on a maximizing layer the first move whose score is
\* >= the frame's current beta makes the frame return (that score, that
\* move), and no later move is scored or recursed into; likewise on a
\* minimizing layer for the first move whose score is <= the frame's
\* current alpha.
C14_FirstCutoffReturns ==
  []C14_InOrder /\ []C14_LeafResult /\ [][C14_TakeStep]_vars

\* a maximizing frame above depth 1 with three moves returned at its second
\* move, whose child came back with a finite score >= beta; the third move
\* was not recursed into
C14_Witness ==
  /\ ret # << >> /\ ret[1].fn = "alphabeta" /\ ret[1].kind = "cutoff"
  /\ ret[1].maximizing_player /\ ret[1].depth > 1
  /\ ~IsLeaf(ret[1].game, ret[1].depth)
  /\ Len(get_legal_moves(ret[1].game)) = 3 /\ ret[1].called = 2
  /\ ret[1].move = get_legal_moves(ret[1].game)[2]
  /\ ret[1].score >= ret[1].beta /\ ret[1].score < Inf

\* C15: an alphabeta leaf frame (depth 1, or one blank cell left) on a
\* maximizing layer, none of whose moves scores >= beta, returns the
\* greatest score over its legal moves with the earliest move in
\* enumeration order that attains it: ties on the score go to the scan
\* order, not to the greater coordinate pair.
C15_LeafTieByScanOrder ==
  (ret # << >> /\ ret[1].fn = "alphabeta" /\ ret[1].maximizing_player
     /\ ~IsTerminal(ret[1].game) /\ IsLeaf(ret[1].game, ret[1].depth)) =>
     LET r == ret[1]
         moves == get_legal_moves(r.game)
         sc(j) == score(forecast_move(r.game, moves[j]))
     IN  (\A j \in 1 .. Len(moves) : sc(j) < r.beta) =>
            \E j \in 1 .. Len(moves) :
               /\ r.score = sc(j) /\ r.move = moves[j]
               /\ \A h \in 1 .. Len(moves) : sc(h) <= sc(j)
               /\ \A h \in 1 .. j - 1 : sc(h) < sc(j)

\* a leaf frame two of whose moves attain the greatest score, a finite one:
\* it returned the one enumerated first, which is the lesser coordinate
\* pair
C15_Witness ==
  /\ ret # << >> /\ ret[1].fn = "alphabeta" /\ ret[1].maximizing_player
  /\ ~IsTerminal(ret[1].game) /\ IsLeaf(ret[1].game, ret[1].depth)
  /\ ret[1].kind = "exhausted" /\ ret[1].score \notin {-Inf, Inf}
  /\ LET r == ret[1]
         moves == get_legal_moves(r.game)
     IN  \E j, h \in 1 .. Len(moves) :
            /\ j < h /\ r.move = moves[j] /\ MoveLT(moves[j], moves[h])
            /\ score(forecast_move(r.game, moves[h])) = r.score

\* in iterative mode the top-level calls made so far are at depths 1, 2,
\* 3, ... and get_move is past its loop only after a Timeout
C16_DepthsInOrder ==
  (mode = "get_move" /\ iterative /\ legal_moves # << >>) =>
     /\ topDepths = [j \in 1 .. Len(topDepths) |-> j]
     /\ pc # "start" =>
          depth = Len(topDepths) + (IF pc = "try" THEN 1 ELSE 0)
     /\ pc \in {"return", "done"} => Raised

\* in iterative mode a completed search is followed by the call one level
\* deeper, whatever it returned, and the loop is left by the handler alone
C16_LoopStep ==
  (mode = "get_move" /\ iterative) =>
     /\ (pc = "try" /\ pc' # "try") =>
          (pc' = "searching" /\ topDepths' = Append(topDepths, depth))
     /\ (pc = "searching" /\ pc' # "searching") =>
          \/ ret # << >> /\ pc' = "try" /\ depth' = depth + 1
          \/ signal /\ ~signal' /\ pc' = "return"

\* C16: every get_move call returns in the end, the accessor reporting a
\* value below the threshold from some point on; in iterative mode the
\* top-level engine is called at depths 1, 2, 3, ... in that order, each
\* one more than the last, and the loop is left through Timeout alone: it
\* does not stop when a search has reached the end of the game tree.
C16_GetMoveReturns ==
  /\ []C16_DepthsInOrder
  /\ [][C16_LoopStep]_vars
  /\ (mode = "get_move" => <>(pc = "done"))

\* an endgame whose whole tree the depth-2 search had walked: the searches
\* at depths 3 to MaxDepth returned the same result with the same number
\* of scoring calls, the loop went on to depth MaxDepth + 1, and get_move
\* returned after the Timeout
C16_Witness ==
  /\ Returned /\ iterative /\ Raised
  /\ topDepths = [j \in 1 .. MaxDepth + 1 |-> j] /\ Len(completed) = MaxDepth
  /\ completed[1].res.score # completed[2].res.score
  /\ \A j \in 3 .. MaxDepth :
        /\ completed[j].res.score = completed[2].res.score
        /\ completed[j].res.move = completed[2].res.move
        /\ completed[j].stats.scores - completed[j - 1].stats.scores
             = completed[2].stats.scores - completed[1].stats.scores
  /\ completed[2].res.score \in {-Inf, Inf}

====
